---- MODULE Spec2Model ----
(***************************************************************************)
(* Model of the UDP file transfer system: the interactive client           *)
(* (client.cpp, XOR codec; and its AES variant with the operator prompt),  *)
(* the threaded server (server.cpp) and the payload codec                  *)
(* (udp_file_transfer.cpp).                                                *)
(*                                                                         *)
(* Datagrams are kept as the C structs that are put on the wire, bytes are *)
(* 0..255, files are byte sequences.  AES-256-CBC (OpenSSL) is library     *)
(* code: it is represented by a keyed byte substitution with PKCS#7        *)
(* padding, which keeps what the callers depend on: the ciphertext length, *)
(* the padding check of the final block, and that a different key or IV    *)
(* yields different bytes.                                                 *)
(***************************************************************************)
EXTENDS Integers, Sequences, FiniteSets, TLC

(***************************************************************************)
(* Program constants.                                                      *)
(***************************************************************************)
PACKET_SIZE == 512
FILENAME_SIZE == 256
AES_BLOCK_SIZE == 16
AES_KEY_SIZE == 32
AES_IV_SIZE == 16
XOR_KEY == 170
RRQ == 1
WRQ == 2
DEL == 3
ACK == 4
ERROR_PACKET == 5

(***************************************************************************)
(* Bounds of the model.                                                    *)
(***************************************************************************)
MaxYes == 1

Names == {"a", "b", "d/x"}
Sizes == {0, 1, 511, 512, 513, 1500}
Clients == {"c1", "c2"}

Min(x, y) == IF x < y THEN x ELSE y

(***************************************************************************)
(* Payload codec.                                                          *)
(***************************************************************************)
RECURSIVE XorBits(_, _, _)
XorBits(a, b, n) ==
    IF n = 0 THEN 0
    ELSE (((a % 2) + (b % 2)) % 2) + 2 * XorBits(a \div 2, b \div 2, n - 1)

XorTable == [b \in 0..255 |-> XorBits(b, XOR_KEY, 8)]

RECURSIVE SumRange(_, _, _)
SumRange(s, lo, hi) ==
    IF lo > hi THEN 0
    ELSE IF lo = hi THEN s[lo]
    ELSE LET mid == (lo + hi) \div 2
         IN  SumRange(s, lo, mid) + SumRange(s, mid + 1, hi)

\* The accumulation stops one byte short of the end.
calculate_checksumShort(data) == SumRange(data, 1, Len(data) - 1)

calculate_checksum(data) == SumRange(data, 1, Len(data))

\* The test of the comparison inverted.
verify_checksumInverted(data, checksum) == calculate_checksum(data) # checksum

verify_checksum(data, checksum) == calculate_checksum(data) = checksum

encrypt_data(data) == [i \in 1..Len(data) |-> XorTable[data[i]]]

\* A decryption with another key than the encryption's.
decrypt_dataOtherKey(data) == [i \in 1..Len(data) |-> XorBits(data[i], 85, 8)]

decrypt_data(data) == encrypt_data(data)

KeyBytes(key) == [i \in 1..AES_KEY_SIZE |-> 37 + key]
IvBytes(iv) == [i \in 1..AES_IV_SIZE |-> 91 + iv]

KeyStream(key, iv) == (KeyBytes(key)[1] + IvBytes(iv)[1]) % 256

\* EVP_EncryptUpdate + EVP_EncryptFinal_ex: PKCS#7 padding to the next multiple
\* of the block size (a whole block of padding when already aligned).
aes_encrypt(data, key, iv) ==
    LET n   == Len(data)
        pad == AES_BLOCK_SIZE - (n % AES_BLOCK_SIZE)
    IN  [i \in 1..(n + pad) |->
            ((IF i <= n THEN data[i] ELSE pad) + KeyStream(key, iv)) % 256]

\* EVP_DecryptUpdate holds back the last whole block; EVP_DecryptFinal_ex
\* releases it without its padding when the padding is well formed, and
\* releases nothing otherwise (its return value is ignored by the caller).
aes_decrypt(data, key, iv) ==
    LET n     == Len(data)
        plain == [i \in 1..n |-> (data[i] + 256 - KeyStream(key, iv)) % 256]
        upd   == IF n = 0 THEN 0
                 ELSE IF n % AES_BLOCK_SIZE = 0 THEN n - AES_BLOCK_SIZE
                 ELSE n - (n % AES_BLOCK_SIZE)
        p     == IF n = 0 THEN 0 ELSE plain[n]
        padOk == /\ n > 0
                 /\ n % AES_BLOCK_SIZE = 0
                 /\ p >= 1
                 /\ p <= AES_BLOCK_SIZE
                 /\ \A i \in (n - p + 1)..n : plain[i] = p
        fin   == IF padOk THEN AES_BLOCK_SIZE - p ELSE 0
    IN  SubSeq(plain, 1, upd + fin)

(***************************************************************************)
(* Packet layout.                                                          *)
(***************************************************************************)
NameBytes(name) ==
    CASE name = "a" -> <<97>>
      [] name = "b" -> <<98>>
      [] name = "d/x" -> <<100, 47, 120>>
      [] OTHER -> <<>>

\* struct Packet as built by the senders; copied is the number of bytes the
\* sender memcpy'd into data (more than PACKET_SIZE when the copy overran it).
Packet(op, name, data, checksum, dataSize, copied) ==
    [raw |-> FALSE, op |-> op, name |-> name, data |-> data,
     checksum |-> checksum, dataSize |-> dataSize, copied |-> copied,
     bytes |-> <<>>]

\* A datagram that is not a struct Packet: a status text, a key, an IV.
RawDatagram(bytes) ==
    [raw |-> TRUE, op |-> 0, name |-> "", data |-> <<>>,
     checksum |-> 0, dataSize |-> 0, copied |-> 0, bytes |-> bytes]

\* The data buffer of a packet is kept up to its last byte that was ever
\* written; the bytes after it are the zeros of its initialisation.
DataAt(data, i) == IF i <= Len(data) THEN data[i] ELSE 0

RequestPacket(op, name) == Packet(op, name, <<>>, 0, 0, 0)

\* The memcpy into data wrote past the end of the struct.
Overran(pkt) == pkt.copied > PACKET_SIZE

\* sizeof(Packet): int, char[256], uint8_t[512], uint32_t, size_t (8-aligned).
SizeofPacket == 4 + FILENAME_SIZE + PACKET_SIZE + 4 + 8

WireLen(d) == IF d.raw THEN Len(d.bytes) ELSE SizeofPacket

\* The first PACKET_SIZE bytes of the datagram, as recvfrom stores them in a
\* buffer of PACKET_SIZE bytes.
WirePrefix(d) ==
    IF d.raw THEN SubSeq(d.bytes, 1, Min(Len(d.bytes), PACKET_SIZE))
    ELSE LET nb == NameBytes(d.name)
         IN  [i \in 1..PACKET_SIZE |->
                IF i = 1 THEN d.op
                ELSE IF i <= 4 THEN 0
                ELSE IF i <= 4 + Len(nb) THEN nb[i - 4]
                ELSE IF i <= 4 + FILENAME_SIZE THEN 0
                ELSE DataAt(d.data, i - 4 - FILENAME_SIZE)]

\* The operation code the dispatch loop reads from a datagram: the int at
\* offset 0.  Key and IV datagrams are random bytes; -1 stands for an int
\* that is none of the operation codes.
DecodeOp(d) ==
    IF ~d.raw THEN d.op
    ELSE IF Len(d.bytes) >= 4 /\ d.bytes[2] = 0 /\ d.bytes[3] = 0 /\ d.bytes[4] = 0
         THEN d.bytes[1]
         ELSE -1

MsgNotFound == <<69, 114, 114, 111, 114, 58, 32, 70, 105, 108, 101, 32, 110, 111, 116, 32, 102, 111, 117, 110, 100, 46>>
MsgCreateFailed == <<69, 114, 114, 111, 114, 58, 32, 67, 111, 117, 108, 100, 32, 110, 111, 116, 32, 99, 114, 101, 97, 116, 101, 32, 102, 105, 108, 101, 46>>
MsgDeleteFailed == <<69, 114, 114, 111, 114, 58, 32, 70, 97, 105, 108, 101, 100, 32, 116, 111, 32, 100, 101, 108, 101, 116, 101, 32, 102, 105, 108, 101, 46>>
MsgDeleted == <<83, 117, 99, 99, 101, 115, 115, 58, 32, 70, 105, 108, 101, 32, 100, 101, 108, 101, 116, 101, 100, 46>>
MsgUnknownOp == <<69, 114, 114, 111, 114, 58, 32, 85, 110, 107, 110, 111, 119, 110, 32, 111, 112, 101, 114, 97, 116, 105, 111, 110, 46>>

(***************************************************************************)
(* State.                                                                  *)
(***************************************************************************)
VARIABLES
    win32,        \* the build: TRUE when compiled with _WIN32 (Winsock)
    variant,      \* the client build: "xor" (encrypt_data) or "aes" (aes_encrypt)
    fsize,        \* the size of the files the operators work with
    plan,         \* per client: the menu choices its operator makes, in order
    timely,       \* TRUE: the server answers well within the select timeout
    srvFiles,     \* ./server_files/: path -> content, path = <<name, version>>
    backupFiles,  \* ./backup_files/: path -> content
    cliFiles,     \* per client, its working directory: name -> content
    srvQ,         \* datagrams queued on the server socket
    cliQ,         \* per client, datagrams queued on its socket
    handlers,     \* the detached handle_client threads, in launch order
    cli,          \* per client, the locals of main and of the call in progress
    log,          \* server_error.log: the entries appended by log_error
    now,          \* the clock, in seconds
    up,           \* the server process is running
    codec         \* a buffer being taken through the codec and the checksum

vars == <<win32, variant, fsize, plan, timely, srvFiles, backupFiles, cliFiles,
          srvQ, cliQ, handlers, cli, log, now, up, codec>>

\* The codec buffer: data is the plaintext, enc and dec what encrypt_data and
\* decrypt_data returned, sum what calculate_checksum returned, other the
\* buffer that was verified against sum, ok what verify_checksum returned.
CodecBuffer(data) ==
    [pc |-> "new", data |-> data, enc |-> <<>>, dec |-> <<>>, sum |-> 0,
     other |-> <<>>, ok |-> FALSE]

CodecIdle == [CodecBuffer(<<>>) EXCEPT !.pc = "idle"]

\* Content of the operator's local files and of the files already stored.
LocalContent(name, n) == [i \in 1..n |-> (7 * i + Len(NameBytes(name)) + 11) % 256]
StoredContent(name, n) == [i \in 1..n |-> (5 * i + 3 * Len(NameBytes(name))) % 256]

\* A path of the storage root; version 0 is the name itself, a version t > 0
\* is the name with the suffix _v<timestamp t>.
PlainPath(name) == <<name, 0>>

generate_versioned_filename(name, t) == <<name, t>>

\* "./server_files/d/x_v..." cannot be created: validate_directories creates
\* the storage root only, not the directory d below it.
Creatable(name) == name # "d/x"

\* A file.  One that still is as Init found it is kept as the mark of what
\* it was ("local": the operator's file, "stored": a stored file), and its
\* bytes are LocalContent or StoredContent; a file written since then is kept
\* as the bytes written.
Untouched(kind) == [init |-> kind, bytes |-> <<>>]
Written(bytes) == [init |-> "", bytes |-> bytes]

FileBytes(name, f) ==
    IF f.init = "local" THEN LocalContent(name, fsize)
    ELSE IF f.init = "stored" THEN StoredContent(name, fsize)
    ELSE f.bytes

FileLen(f) == IF f.init = "" THEN Len(f.bytes) ELSE fsize

Put(f, k, v) == [x \in (DOMAIN f) \cup {k} |-> IF x = k THEN v ELSE f[x]]
Drop(f, k) == [x \in (DOMAIN f) \ {k} |-> f[x]]

NoFiles == [x \in {} |-> Written(<<>>)]

\* A datagram in a socket queue: the sender's address and the payload.
Dg(from, d) == [from |-> from, d |-> d]

\* recvfrom into a buffer of cap bytes: Winsock fails with WSAEMSGSIZE (-1)
\* when the datagram is longer than the buffer, POSIX truncates it silently.
RecvLen(d, cap) ==
    IF WireLen(d) > cap
    THEN (IF win32 THEN -1 ELSE cap)
    ELSE WireLen(d)

RetryLimit == 3

\* The loop bound off by one: a fourth attempt.
RetriesLeftOffByOne(attempt) == attempt <= RetryLimit

\* for (int attempt = 0; attempt < 3; ++attempt): another attempt follows.
RetriesLeft(attempt) == attempt < RetryLimit

\* The key and IV main draws with RAND_bytes.  A draw repeats no other draw;
\* the values are interchangeable, so each client's draw is named once.
ClientKey(c) == IF c = "c1" THEN 0 ELSE 100
ClientIv(c) == IF c = "c1" THEN 0 ELSE 100

ClientIdle(c, pc) ==
    [pc |-> pc, op |-> 0, name |-> "", pkt |-> RequestPacket(0, ""),
     step |-> 0, attempt |-> 0, rounds |-> 0, sends |-> 0, calls |-> 0,
     acked |-> 0,
     off |-> 0, key |-> ClientKey(c), iv |-> ClientIv(c), out |-> <<>>,
     done |-> 0]

InitCommon ==
    /\ win32 \in BOOLEAN
    /\ variant \in {"xor", "aes"}
    /\ fsize \in Sizes
    /\ srvFiles = [p \in {PlainPath("a"), PlainPath("b")} |-> Untouched("stored")]
    /\ backupFiles = NoFiles
    /\ cliFiles = [c \in Clients |->
                     IF c = "c1"
                     THEN [n \in {"a", "d/x"} |-> Untouched("local")]
                     ELSE NoFiles]
    /\ srvQ = <<>>
    /\ cliQ = [c \in Clients |-> <<>>]
    /\ handlers = <<>>
    /\ log = <<>>
    /\ cli = [c \in Clients |-> ClientIdle(c, IF variant = "aes" THEN "init" ELSE "menu")]
    /\ now = 1
    /\ up = TRUE

\* The operators' choices: one request of any kind by one client; an upload
\* followed by the download of the same name; two clients that each download
\* one of the two stored files.
Request(op, name) == [op |-> op, name |-> name]

SinglePlans ==
    {[c \in Clients |-> IF c = "c1" THEN <<Request(op, name)>> ELSE <<>>] :
        op \in {RRQ, WRQ, DEL}, name \in Names}

RoundTripPlans ==
    {[c \in Clients |->
        IF c = "c1" THEN <<Request(WRQ, "a"), Request(RRQ, "a")>> ELSE <<>>]}

ReaderPlans ==
    {[c \in Clients |-> <<Request(RRQ, IF c = "c1" THEN "a" ELSE "b")>>]}

Plans == SinglePlans \cup RoundTripPlans \cup ReaderPlans

\* The two readers are run with the XOR client build, the upload followed by
\* a download with the files of at most two chunks.
RoundTripSizes == {0, 1, 511, 512, 513}

Init ==
    /\ InitCommon
    /\ plan \in Plans
    /\ plan \in ReaderPlans => variant = "xor"
    /\ plan \in RoundTripPlans => fsize \in RoundTripSizes
    /\ codec = CodecIdle
    /\ timely = TRUE

(***************************************************************************)
(* Client.                                                                 *)
(***************************************************************************)
\* memcpy(buf, bytes, Len(bytes)) into a buffer of PACKET_SIZE bytes; what
\* does not fit lands behind the buffer.
Overlay(buf, bytes) ==
    LET len == Min(PACKET_SIZE, IF Len(bytes) > Len(buf) THEN Len(bytes) ELSE Len(buf))
    IN  [i \in 1..len |-> IF i <= Len(bytes) THEN bytes[i] ELSE buf[i]]

Encrypt(rec, plain) ==
    IF variant = "xor" THEN encrypt_data(plain)
    ELSE aes_encrypt(plain, rec.key, rec.iv)

Decrypt(rec, bytes) ==
    IF variant = "xor" THEN decrypt_data(bytes)
    ELSE aes_decrypt(bytes, rec.key, rec.iv)

\* The read stops one byte short of the buffer.
ChunkLenOneShort(len, off) == Min(PACKET_SIZE - 1, len - off)

\* Number of bytes file.read delivers at offset off of a file of len bytes.
ChunkLen(len, off) == Min(PACKET_SIZE, len - off)

\* send_wrq, one iteration of the loop: file.read into packet.data, encrypt,
\* memcpy back, checksum.  A ciphertext longer than the buffer overruns data
\* into checksum and dataSize; checksum is assigned afterwards.
ChunkPacket(rec, content, off) ==
    LET n     == ChunkLen(Len(content), off)
        plain == SubSeq(content, off + 1, off + n)
        enc   == Encrypt(rec, plain)
        buf   == Overlay(Overlay(rec.pkt.data, plain), enc)
    IN  Packet(WRQ, rec.name, buf, calculate_checksum(enc),
               IF Len(enc) > PACKET_SIZE THEN -1 ELSE n, Len(enc))

\* Nothing is left for the server to do until another datagram arrives: the
\* dispatch loop and the handlers that receive are blocked in recvfrom, every
\* other handler has returned.
ServerQuiet ==
    \/ ~up
    \/ /\ srvQ = <<>>
       /\ \A h \in 1..Len(handlers) : handlers[h].pc \in {"recv", "done"}

\* send_request_with_ack is entered: first sendto, then select.
BeginCall(rec, pkt) ==
    [rec EXCEPT !.pkt = pkt, !.attempt = 0, !.rounds = 1, !.sends = 1,
                !.calls = @ + 1, !.pc = "wait"]

\* send_wrq, the memcpy overran the packet: the behaviour is undefined, the
\* client goes on with the packet as it is or the process is aborted.
Crashed(rec) == [rec EXCEPT !.pc = "crashed"]

EndOp(rec, msgs) ==
    [rec EXCEPT !.pc = "menu", !.out = @ \o msgs, !.done = @ + 1]

\* main, AES build: the key and the IV are sent to the server as two datagrams.
ClientStart(c) ==
    /\ cli[c].pc = "init"
    /\ Len(plan[c]) > 0
    /\ srvQ' = srvQ \o <<Dg(c, RawDatagram(KeyBytes(cli[c].key))),
                         Dg(c, RawDatagram(IvBytes(cli[c].iv)))>>
    /\ cli' = [cli EXCEPT ![c].pc = "menu"]
    /\ UNCHANGED <<codec, up, win32, variant, fsize, plan, timely, srvFiles, backupFiles,
                   cliFiles, cliQ, handlers, log, now>>

\* main: the operator's next menu choice.
NextChoice(c) == plan[c][cli[c].step + 1]

NewOp(c, op, name) ==
    [cli[c] EXCEPT !.op = op, !.name = name, !.out = <<>>, !.calls = 0,
                   !.step = @ + 1,
                   !.acked = 0, !.off = 0, !.pkt = RequestPacket(op, name)]

\* send_rrq and send_del up to their call of send_request_with_ack.
ClientRequest(c) ==
    /\ cli[c].pc = "menu"
    /\ cli[c].step < Len(plan[c])
    /\ NextChoice(c).op \in {RRQ, DEL}
    /\ LET op   == NextChoice(c).op
           name == NextChoice(c).name
       IN  /\ cli' = [cli EXCEPT ![c] = BeginCall(NewOp(c, op, name),
                                                  RequestPacket(op, name))]
           /\ srvQ' = Append(srvQ, Dg(c, RequestPacket(op, name)))
    /\ UNCHANGED <<codec, up, win32, variant, fsize, plan, timely, srvFiles, backupFiles,
                   cliFiles, cliQ, handlers, log, now>>

\* send_wrq up to its first call of send_request_with_ack.
ClientWrite(c) ==
    /\ cli[c].pc = "menu"
    /\ cli[c].step < Len(plan[c])
    /\ NextChoice(c).op = WRQ
    /\ LET name == NextChoice(c).name
           rec  == NewOp(c, WRQ, name)
       IN  IF name \notin DOMAIN cliFiles[c]
           THEN /\ cli' = [cli EXCEPT ![c] = EndOp(rec, <<"file not found">>)]
                /\ srvQ' = srvQ
           ELSE IF ChunkLen(FileLen(cliFiles[c][name]), 0) = 0
           THEN /\ cli' = [cli EXCEPT ![c] = EndOp(rec, <<"uploaded">>)]
                /\ srvQ' = srvQ
           ELSE LET pkt == ChunkPacket(rec, FileBytes(name, cliFiles[c][name]), 0)
                IN  \/ /\ cli' = [cli EXCEPT ![c] = BeginCall(rec, pkt)]
                       /\ srvQ' = Append(srvQ, Dg(c, pkt))
                    \/ /\ Overran(pkt)
                       /\ cli' = [cli EXCEPT ![c] = Crashed(rec)]
                       /\ srvQ' = srvQ
    /\ UNCHANGED <<codec, up, win32, variant, fsize, plan, timely, srvFiles, backupFiles,
                   cliFiles, cliQ, handlers, log, now>>

\* What the caller of send_request_with_ack does when it returns ok.
Returned(c, rec, ok) ==
    CASE rec.op = RRQ ->
           IF ok
           THEN /\ cliFiles' = [cliFiles EXCEPT ![c] = Put(@, rec.name, Written(<<>>))]
                /\ cli' = [cli EXCEPT ![c] = [rec EXCEPT !.pc = "rrq_loop"]]
                /\ srvQ' = srvQ
           ELSE /\ cli' = [cli EXCEPT ![c] = EndOp(rec, <<"rrq failed">>)]
                /\ UNCHANGED <<cliFiles, srvQ>>
      [] rec.op = WRQ ->
           IF ok
           THEN LET content == FileBytes(rec.name, cliFiles[c][rec.name])
                    off     == rec.off + ChunkLen(Len(content), rec.off)
                    r2      == [rec EXCEPT !.off = off]
                IN  IF ChunkLen(Len(content), off) = 0
                    THEN /\ cli' = [cli EXCEPT ![c] = EndOp(r2, <<"uploaded">>)]
                         /\ UNCHANGED <<cliFiles, srvQ>>
                    ELSE LET pkt == ChunkPacket(r2, content, off)
                         IN  /\ \/ /\ cli' = [cli EXCEPT ![c] = BeginCall(r2, pkt)]
                                   /\ srvQ' = Append(srvQ, Dg(c, pkt))
                                \/ /\ Overran(pkt)
                                   /\ cli' = [cli EXCEPT ![c] = Crashed(r2)]
                                   /\ srvQ' = srvQ
                             /\ UNCHANGED cliFiles
           ELSE /\ cli' = [cli EXCEPT ![c] = EndOp(rec, <<"wrq failed", "uploaded">>)]
                /\ UNCHANGED <<cliFiles, srvQ>>
      [] OTHER ->
           /\ cli' = [cli EXCEPT ![c] =
                        EndOp(rec, IF ok THEN <<"delete sent">> ELSE <<"del failed">>)]
           /\ UNCHANGED <<cliFiles, srvQ>>

\* Only a Packet with operation ACK counts as the acknowledgment: anything
\* else is read and dropped, and the call keeps waiting.
SwaRecvOnlyAck(c) ==
    /\ cli[c].pc = "wait"
    /\ cliQ[c] # <<>>
    /\ cliQ' = [cliQ EXCEPT ![c] = Tail(@)]
    /\ IF DecodeOp(Head(cliQ[c]).d) = ACK
       THEN Returned(c, [cli[c] EXCEPT !.acked = @ + 1], TRUE)
       ELSE UNCHANGED <<cli, cliFiles, srvQ>>
    /\ UNCHANGED <<codec, up, win32, variant, fsize, plan, timely, srvFiles, backupFiles,
                   handlers, log, now>>

\* send_request_with_ack: select reports the socket readable; one datagram,
\* whatever it is, is read and dropped, and the call returns true.
SwaRecv(c) ==
    /\ cli[c].pc = "wait"
    /\ cliQ[c] # <<>>
    /\ cliQ' = [cliQ EXCEPT ![c] = Tail(@)]
    /\ Returned(c, [cli[c] EXCEPT !.acked = @ + 1], TRUE)
    /\ UNCHANGED <<codec, up, win32, variant, fsize, plan, timely, srvFiles, backupFiles,
                   handlers, log, now>>

\* send_request_with_ack: the select of this attempt times out (one second
\* passes); the next attempt sends the packet again, and after the last
\* attempt the call gives up (client.cpp) or asks the operator (AES build).
SwaTimeout(c) ==
    /\ cli[c].pc = "wait"
    /\ cliQ[c] = <<>>
    /\ timely => ServerQuiet
    /\ now' = now + 1
    /\ LET rec == [cli[c] EXCEPT !.attempt = @ + 1]
       IN  IF RetriesLeft(rec.attempt)
           THEN /\ srvQ' = Append(srvQ, Dg(c, rec.pkt))
                /\ cli' = [cli EXCEPT ![c] = [rec EXCEPT !.sends = @ + 1]]
                /\ UNCHANGED cliFiles
           ELSE IF variant = "aes"
           THEN /\ cli' = [cli EXCEPT ![c] = [rec EXCEPT !.pc = "prompt"]]
                /\ UNCHANGED <<cliFiles, srvQ>>
           ELSE Returned(c, rec, FALSE)
    /\ UNCHANGED <<codec, up, win32, variant, fsize, plan, timely, srvFiles, backupFiles,
                   cliQ, handlers, log>>

\* AES build: "Would you like to retry? (y/n)".  y calls
\* send_request_with_ack again, anything else returns false.
SwaPrompt(c, yes) ==
    /\ cli[c].pc = "prompt"
    /\ IF yes
       THEN /\ cli[c].rounds <= MaxYes
            /\ srvQ' = Append(srvQ, Dg(c, cli[c].pkt))
            /\ cli' = [cli EXCEPT ![c].attempt = 0, ![c].rounds = @ + 1,
                                  ![c].sends = @ + 1, ![c].pc = "wait"]
            /\ UNCHANGED cliFiles
       ELSE Returned(c, cli[c], FALSE)
    /\ UNCHANGED <<codec, up, win32, variant, fsize, plan, timely, srvFiles, backupFiles,
                   cliQ, handlers, log, now>>

\* send_rrq, one iteration of the receive loop.
RrqRecv(c) ==
    /\ cli[c].pc = "rrq_loop"
    /\ cliQ[c] # <<>>
    /\ cliQ' = [cliQ EXCEPT ![c] = Tail(@)]
    /\ LET d        == Head(cliQ[c]).d
           received == RecvLen(d, PACKET_SIZE)
           bytes    == SubSeq(WirePrefix(d), 1, received)
           plain    == Decrypt(cli[c], bytes)
       IN  IF received <= 0
           THEN /\ cli' = [cli EXCEPT ![c] = EndOp(@, <<"downloaded">>)]
                /\ UNCHANGED <<cliFiles, srvQ>>
           ELSE IF ~verify_checksum(plain, cli[c].pkt.checksum)
           THEN /\ cli' = [cli EXCEPT ![c].out = Append(@, "mismatch")]
                /\ UNCHANGED <<cliFiles, srvQ>>
           ELSE /\ cliFiles' = [cliFiles EXCEPT ![c][cli[c].name] =
                                   Written(FileBytes(cli[c].name, @) \o plain)]
                /\ srvQ' = Append(srvQ, Dg(c, RequestPacket(ACK, "")))
                /\ UNCHANGED cli
    /\ UNCHANGED <<codec, up, win32, variant, fsize, plan, timely, srvFiles, backupFiles,
                   handlers, log, now>>

(***************************************************************************)
(* Server.                                                                 *)
(***************************************************************************)
\* The locals of one handle_client thread.  status is the status text it
\* sent, sent the number of datagrams it sent, chunks the number of data
\* packets among them, wrote the number of bytes it wrote to its file.
NewHandler(dg, key, iv) ==
    LET op == DecodeOp(dg.d)
    IN  [op |-> op, name |-> dg.d.name, addr |-> dg.from,
         checksum |-> dg.d.checksum, key |-> key, iv |-> iv,
         pc |-> "start", path |-> PlainPath(dg.d.name), off |-> 0,
         status |-> "", sent |-> 0, chunks |-> 0, wrote |-> 0]

\* The key and the IV the dispatch loop draws with RAND_bytes in its n-th
\* iteration: a draw repeats no earlier draw, of the server or of a client.
ServerKey(n) == 1 + n
ServerIv(n) == 1 + n

\* start_server, one iteration of the dispatch loop: fresh key and IV from
\* RAND_bytes, recvfrom into a Packet, a detached thread for the datagram.
Dispatch ==
    /\ up
    /\ srvQ # <<>>
    /\ srvQ' = Tail(srvQ)
    /\ handlers' = Append(handlers,
                          NewHandler(Head(srvQ), ServerKey(Len(handlers) + 1),
                                     ServerIv(Len(handlers) + 1)))
    /\ UNCHANGED <<codec, up, win32, variant, fsize, plan, timely, srvFiles, backupFiles,
                   cliFiles, cliQ, cli, log, now>>

SendTo(addr, d) == cliQ' = [cliQ EXCEPT ![addr] = Append(@, Dg("server", d))]

\* log_error(message, clientAddr): one line appended to server_error.log.
LogEntry(msg, arg, addr) == [msg |-> msg, arg |-> arg, addr |-> addr]

log_error(msg, arg, addr) == log' = Append(log, LogEntry(msg, arg, addr))

\* A handler sends a status text to its client and returns.
Reply(h, text, tag) ==
    /\ SendTo(handlers[h].addr, RawDatagram(text))
    /\ handlers' = [handlers EXCEPT ![h].status = tag, ![h].sent = @ + 1,
                                    ![h].pc = "done"]

\* The error is reported to the client but not logged.
RrqMissingNoLog(h) ==
    /\ Reply(h, MsgNotFound, "not found")
    /\ UNCHANGED <<srvFiles, log>>

\* case RRQ, the file cannot be opened.
RrqMissing(h) ==
    /\ Reply(h, MsgNotFound, "not found")
    /\ log_error("File not found", handlers[h].name, handlers[h].addr)
    /\ UNCHANGED srvFiles

\* case RRQ up to the loop: open the file of the storage root.
HandleRRQ(h) ==
    /\ up
    /\ handlers[h].op = RRQ
    /\ handlers[h].pc = "start"
    /\ IF handlers[h].path \notin DOMAIN srvFiles
       THEN RrqMissing(h)
       ELSE /\ handlers' = [handlers EXCEPT ![h].pc =
                              IF FileLen(srvFiles[handlers[h].path]) = 0
                              THEN "done" ELSE "stream"]
            /\ UNCHANGED <<srvFiles, cliQ, log>>
    /\ UNCHANGED <<codec, up, win32, variant, fsize, plan, timely, backupFiles, cliFiles,
                   srvQ, cli, now>>

\* case RRQ, the response for the chunk of n plaintext bytes: a Packet with
\* operation ACK; the ciphertext is memcpy'd into data whatever its length.
ResponsePacket(plain, key, iv) ==
    LET enc == aes_encrypt(plain, key, iv)
    IN  Packet(ACK, "", Overlay(<<>>, enc), calculate_checksum(enc),
               IF Len(enc) > PACKET_SIZE THEN -1 ELSE Len(plain), Len(enc))

\* case RRQ, one iteration of the loop: read, encrypt, send.  Nothing is
\* awaited between two chunks.  The ifstream reads the file as it was stored.
\* When the memcpy overran the response the behaviour is undefined: the
\* thread goes on with the packet as it is, or the process is aborted.
HandleStream(h) ==
    /\ up
    /\ handlers[h].op = RRQ
    /\ handlers[h].pc = "stream"
    /\ LET content == StoredContent(handlers[h].name, fsize)
           off     == handlers[h].off
           n       == ChunkLen(Len(content), off)
           plain   == SubSeq(content, off + 1, off + n)
           resp    == ResponsePacket(plain, handlers[h].key, handlers[h].iv)
       IN  \/ /\ SendTo(handlers[h].addr, resp)
              /\ handlers' = [handlers EXCEPT
                                ![h].off = off + n, ![h].sent = @ + 1,
                                ![h].chunks = @ + 1,
                                ![h].pc = IF ChunkLen(Len(content), off + n) = 0
                                          THEN "done" ELSE "stream"]
              /\ UNCHANGED up
           \/ /\ Overran(resp)
              /\ up' = FALSE
              /\ UNCHANGED <<cliQ, handlers>>
    /\ UNCHANGED <<codec, win32, variant, fsize, plan, timely, srvFiles, backupFiles,
                   cliFiles, srvQ, cli, log, now>>

\* case WRQ up to the loop: the destination is created (or truncated) under
\* the versioned name, in the storage root.
HandleWRQ(h) ==
    /\ up
    /\ handlers[h].op = WRQ
    /\ handlers[h].pc = "start"
    /\ LET path == generate_versioned_filename(handlers[h].name, now)
       IN  IF ~Creatable(handlers[h].name)
           THEN /\ Reply(h, MsgCreateFailed, "create failed")
                /\ log_error("Could not create file", handlers[h].name, handlers[h].addr)
                /\ UNCHANGED srvFiles
           ELSE /\ srvFiles' = Put(srvFiles, path, Written(<<>>))
                /\ handlers' = [handlers EXCEPT ![h].path = path, ![h].pc = "recv"]
                /\ UNCHANGED <<cliQ, log>>
    /\ UNCHANGED <<codec, up, win32, variant, fsize, plan, timely, backupFiles, cliFiles,
                   srvQ, cli, now>>

WriteAt(content, off, bytes) ==
    LET end == off + Len(bytes)
        len == IF end > Len(content) THEN end ELSE Len(content)
    IN  [i \in 1..len |->
            IF i > off /\ i <= end THEN bytes[i - off]
            ELSE IF i <= Len(content) THEN content[i] ELSE 0]

\* case WRQ, one iteration of the loop: the handler itself calls recvfrom on
\* the server socket, with a buffer of PACKET_SIZE bytes, decrypts what it
\* got and checks it against the checksum of the packet that launched it.
\* Nothing is sent back.  A result <= 0 ends the loop and the handler.
HandleWrqRecv(h) ==
    /\ up
    /\ handlers[h].op = WRQ
    /\ handlers[h].pc = "recv"
    /\ srvQ # <<>>
    /\ srvQ' = Tail(srvQ)
    /\ LET d        == Head(srvQ).d
           received == RecvLen(d, PACKET_SIZE)
           bytes    == SubSeq(WirePrefix(d), 1, received)
           plain    == aes_decrypt(bytes, handlers[h].key, handlers[h].iv)
       IN  IF received <= 0
           THEN /\ handlers' = [handlers EXCEPT ![h].pc = "done"]
                /\ UNCHANGED <<srvFiles, log>>
           ELSE IF ~verify_checksum(plain, handlers[h].checksum)
           THEN /\ log_error("Checksum mismatch", handlers[h].name, Head(srvQ).from)
                /\ UNCHANGED <<srvFiles, handlers>>
           ELSE /\ UNCHANGED log
                /\ srvFiles' = [srvFiles EXCEPT ![handlers[h].path] =
                                  Written(WriteAt(@.bytes, handlers[h].off, plain))]
                /\ handlers' = [handlers EXCEPT ![h].off = @ + Len(plain),
                                                ![h].wrote = @ + Len(plain)]
    /\ UNCHANGED <<codec, up, win32, variant, fsize, plan, timely, backupFiles, cliFiles,
                   cliQ, cli, now>>

\* The test of remove()'s result inverted: success is reported for a failed
\* removal and failure for a successful one.
HandleDELInverted(h) ==
    /\ up
    /\ handlers[h].op = DEL
    /\ handlers[h].pc = "start"
    /\ IF handlers[h].path \notin DOMAIN srvFiles
       THEN /\ Reply(h, MsgDeleted, "deleted")
            /\ UNCHANGED <<srvFiles, log>>
       ELSE /\ srvFiles' = Drop(srvFiles, handlers[h].path)
            /\ Reply(h, MsgDeleteFailed, "delete failed")
            /\ log_error("Failed to delete file", handlers[h].name, handlers[h].addr)
    /\ UNCHANGED <<codec, up, win32, variant, fsize, plan, timely, backupFiles, cliFiles,
                   srvQ, cli, now>>

\* The status is sent without the call of remove().
HandleDELNoRemove(h) ==
    /\ up
    /\ handlers[h].op = DEL
    /\ handlers[h].pc = "start"
    /\ IF handlers[h].path \notin DOMAIN srvFiles
       THEN /\ Reply(h, MsgDeleteFailed, "delete failed")
            /\ log_error("Failed to delete file", handlers[h].name, handlers[h].addr)
       ELSE /\ Reply(h, MsgDeleted, "deleted")
            /\ UNCHANGED log
    /\ UNCHANGED <<codec, up, win32, variant, fsize, plan, timely, srvFiles, backupFiles,
                   cliFiles, srvQ, cli, now>>

\* case DEL: remove() and one status text.
HandleDEL(h) ==
    /\ up
    /\ handlers[h].op = DEL
    /\ handlers[h].pc = "start"
    /\ IF handlers[h].path \notin DOMAIN srvFiles
       THEN /\ Reply(h, MsgDeleteFailed, "delete failed")
            /\ log_error("Failed to delete file", handlers[h].name, handlers[h].addr)
            /\ UNCHANGED srvFiles
       ELSE /\ srvFiles' = Drop(srvFiles, handlers[h].path)
            /\ Reply(h, MsgDeleted, "deleted")
            /\ UNCHANGED log
    /\ UNCHANGED <<codec, up, win32, variant, fsize, plan, timely, backupFiles, cliFiles,
                   srvQ, cli, now>>

\* The unrecognized code is logged but the sender gets no response.
HandleDefaultNoReply(h) ==
    /\ up
    /\ handlers[h].op \notin {RRQ, WRQ, DEL}
    /\ handlers[h].pc = "start"
    /\ handlers' = [handlers EXCEPT ![h].status = "unknown operation",
                                    ![h].pc = "done"]
    /\ log_error("Unknown operation ID", handlers[h].op, handlers[h].addr)
    /\ UNCHANGED <<codec, up, win32, variant, fsize, plan, timely, srvFiles, backupFiles,
                   cliFiles, srvQ, cliQ, cli, now>>

\* default: any other operation code.
HandleDefault(h) ==
    /\ up
    /\ handlers[h].op \notin {RRQ, WRQ, DEL}
    /\ handlers[h].pc = "start"
    /\ Reply(h, MsgUnknownOp, "unknown operation")
    /\ log_error("Unknown operation ID", handlers[h].op, handlers[h].addr)
    /\ UNCHANGED <<codec, up, win32, variant, fsize, plan, timely, srvFiles, backupFiles,
                   cliFiles, srvQ, cli, now>>

(***************************************************************************)
(* Specification.                                                          *)
(***************************************************************************)
Next ==
    \/ \E c \in Clients : ClientStart(c)
    \/ \E c \in Clients : ClientRequest(c)
    \/ \E c \in Clients : ClientWrite(c)
    \/ \E c \in Clients : SwaRecv(c)
    \/ \E c \in Clients : SwaTimeout(c)
    \/ \E c \in Clients, yes \in BOOLEAN : SwaPrompt(c, yes)
    \/ \E c \in Clients : RrqRecv(c)
    \/ Dispatch
    \/ \E h \in 1..Len(handlers) : HandleRRQ(h)
    \/ \E h \in 1..Len(handlers) : HandleStream(h)
    \/ \E h \in 1..Len(handlers) : HandleWRQ(h)
    \/ \E h \in 1..Len(handlers) : HandleWrqRecv(h)
    \/ \E h \in 1..Len(handlers) : HandleDEL(h)
    \/ \E h \in 1..Len(handlers) : HandleDefault(h)

Spec == Init /\ [][Next]_vars

(***************************************************************************)
(* The codec and the checksum on their own: a buffer is encrypted and      *)
(* decrypted again, or summed and verified, as send_wrq and the receive    *)
(* loops do with every chunk.                                              *)
(***************************************************************************)
MaxLen == 3
SampleBytes == {0, 1, 85, 170, 255}

RECURSIVE SeqsOf(_, _)
SeqsOf(S, n) ==
    IF n = 0 THEN {<<>>}
    ELSE LET shorter == SeqsOf(S, n - 1)
         IN  shorter \cup {Append(s, b) : s \in shorter, b \in S}

\* No client, no request, the server idle.
InitCodec ==
    /\ win32 = FALSE
    /\ variant = "xor"
    /\ fsize = 0
    /\ plan = [c \in Clients |-> <<>>]
    /\ timely = TRUE
    /\ srvFiles = NoFiles
    /\ backupFiles = NoFiles
    /\ cliFiles = [c \in Clients |-> NoFiles]
    /\ srvQ = <<>>
    /\ cliQ = [c \in Clients |-> <<>>]
    /\ handlers = <<>>
    /\ log = <<>>
    /\ cli = [c \in Clients |-> ClientIdle(c, "menu")]
    /\ now = 1
    /\ up = TRUE
    /\ codec \in {CodecBuffer(data) : data \in SeqsOf(SampleBytes, MaxLen)}

transfer == <<win32, variant, fsize, plan, timely, srvFiles, backupFiles,
              cliFiles, srvQ, cliQ, handlers, cli, log, now, up>>

\* encrypt_data(chunk), as in send_wrq.
CodecEncrypt ==
    /\ codec.pc = "new"
    /\ codec' = [codec EXCEPT !.enc = encrypt_data(codec.data), !.pc = "encrypted"]
    /\ UNCHANGED transfer

\* decrypt_data(received), as in send_rrq.
CodecDecrypt ==
    /\ codec.pc = "encrypted"
    /\ codec' = [codec EXCEPT !.dec = decrypt_data(codec.enc), !.pc = "decrypted"]
    /\ UNCHANGED transfer

\* packet.checksum = calculate_checksum(...), as in send_wrq.
CodecChecksum ==
    /\ codec.pc = "new"
    /\ codec' = [codec EXCEPT !.sum = calculate_checksum(codec.data), !.pc = "summed"]
    /\ UNCHANGED transfer

\* verify_checksum of the same bytes against the checksum.
CodecVerify ==
    /\ codec.pc = "summed"
    /\ codec' = [codec EXCEPT !.other = codec.data,
                              !.ok = verify_checksum(codec.data, codec.sum),
                              !.pc = "verified"]
    /\ UNCHANGED transfer

\* verify_checksum of the bytes with byte i changed to v.
CodecVerifyChanged(i, v) ==
    /\ codec.pc = "summed"
    /\ i \in 1..Len(codec.data)
    /\ v # codec.data[i]
    /\ LET other == [codec.data EXCEPT ![i] = v]
       IN  codec' = [codec EXCEPT !.other = other,
                                 !.ok = verify_checksum(other, codec.sum),
                                 !.pc = "verified"]
    /\ UNCHANGED transfer

NextCodec ==
    \/ CodecEncrypt
    \/ CodecDecrypt
    \/ CodecChecksum
    \/ CodecVerify
    \/ \E i \in 1..MaxLen, v \in SampleBytes : CodecVerifyChanged(i, v)

SpecCodec == InitCodec /\ [][NextCodec]_vars

(***************************************************************************)
(* Delete requests whose replies may be late: select may time out while    *)
(* the server has not answered yet, and the handler threads of the copies  *)
(* of a request run side by side.                                          *)
(***************************************************************************)
DeletePlans ==
    {[c \in Clients |-> IF c = "c1" THEN <<Request(DEL, name)>> ELSE <<>>] :
        name \in Names}

\* The client is the build of client.cpp.
InitLate ==
    /\ InitCommon
    /\ variant = "xor"
    /\ fsize = 1
    /\ plan \in DeletePlans
    /\ codec = CodecIdle
    /\ timely = FALSE

\* case DEL, the call of remove(): pc keeps its result for the branch that
\* follows.  Other threads run between this call and the sendto.
HandleDELRemove(h) ==
    /\ up
    /\ handlers[h].op = DEL
    /\ handlers[h].pc = "start"
    /\ IF handlers[h].path \notin DOMAIN srvFiles
       THEN /\ handlers' = [handlers EXCEPT ![h].pc = "remove failed"]
            /\ UNCHANGED srvFiles
       ELSE /\ handlers' = [handlers EXCEPT ![h].pc = "removed"]
            /\ srvFiles' = Drop(srvFiles, handlers[h].path)
    /\ UNCHANGED <<codec, up, win32, variant, fsize, plan, timely, backupFiles, cliFiles,
                   srvQ, cliQ, cli, log, now>>

\* case DEL, the branch taken on remove()'s result: one status text, and a
\* log entry for the failure.
HandleDELReply(h) ==
    /\ up
    /\ handlers[h].op = DEL
    /\ handlers[h].pc \in {"removed", "remove failed"}
    /\ IF handlers[h].pc = "remove failed"
       THEN /\ Reply(h, MsgDeleteFailed, "delete failed")
            /\ log_error("Failed to delete file", handlers[h].name, handlers[h].addr)
       ELSE /\ Reply(h, MsgDeleted, "deleted")
            /\ UNCHANGED log
    /\ UNCHANGED <<codec, up, win32, variant, fsize, plan, timely, srvFiles, backupFiles,
                   cliFiles, srvQ, cli, now>>

NextLate ==
    \/ \E c \in Clients : ClientRequest(c)
    \/ \E c \in Clients : SwaRecv(c)
    \/ \E c \in Clients : SwaTimeout(c)
    \/ Dispatch
    \/ \E h \in 1..Len(handlers) : HandleDELRemove(h)
    \/ \E h \in 1..Len(handlers) : HandleDELReply(h)

SpecLate == InitLate /\ [][NextLate]_vars

(***************************************************************************)
(* Properties.                                                             *)
(***************************************************************************)
Said(c, text) == \E i \in DOMAIN cli[c].out : cli[c].out[i] = text

\* send_request_with_ack returned false to its caller.
SwaGaveUp(c) == Said(c, "rrq failed") \/ Said(c, "wrq failed") \/ Said(c, "del failed")

\* The client has made all its menu choices and no step of it or of the
\* server is left but waiting for a datagram that nobody will send.
Settled(c) ==
    /\ cli[c].step = Len(plan[c])
    /\ cli[c].pc \in {"menu", "rrq_loop"}
    /\ cliQ[c] = <<>>
    /\ ServerQuiet

C2_RoundTrip ==
    \A c \in Clients :
        (plan \in RoundTripPlans /\ Len(plan[c]) = 2 /\ Settled(c)) =>
            /\ plan[c][2].name \in DOMAIN cliFiles[c]
            /\ FileBytes(plan[c][2].name, cliFiles[c][plan[c][2].name])
                 = LocalContent(plan[c][2].name, fsize)

\* C3: after a Write of a local file of S > 0 bytes, the destination file the
\* server created for it holds exactly the S original bytes.
C3_StoredEqualsOriginal ==
    \A c \in Clients :
        (/\ plan \in SinglePlans
         /\ Len(plan[c]) = 1
         /\ plan[c][1] = Request(WRQ, "a")
         /\ fsize > 0
         /\ Settled(c)) =>
            \E t \in 1..now :
                /\ generate_versioned_filename("a", t) \in DOMAIN srvFiles
                /\ FileBytes("a", srvFiles[generate_versioned_filename("a", t)])
                     = LocalContent("a", fsize)

\* C4: a Read of a name that is not in the storage root leaves the client's
\* local files as they were, and the Read ends.
C4_NoPartialWrites ==
    \A c \in Clients :
        (/\ cli[c].op = RRQ
         /\ PlainPath(cli[c].name) \notin DOMAIN srvFiles) =>
            /\ DOMAIN cliFiles[c] = IF c = "c1" THEN {"a", "d/x"} ELSE {}
            /\ \A n \in DOMAIN cliFiles[c] :
                   FileBytes(n, cliFiles[c][n]) = LocalContent(n, fsize)
            /\ Settled(c) => cli[c].pc = "menu"

\* Handler h takes its step from "start" in this transition.
Starts(h, op) ==
    /\ h <= Len(handlers)
    /\ handlers[h].op = op
    /\ handlers[h].pc = "start"
    /\ handlers'[h] # handlers[h]

\* In this transition exactly the datagram d is sent, and to addr.
SendsOnly(addr, d) ==
    cliQ' = [cliQ EXCEPT ![addr] = Append(@, Dg("server", RawDatagram(d)))]

\* C5: the handler of a Read request for a name absent from the storage root
\* sends exactly one Error response, to the requester, writes one log entry,
\* sends no data chunk, stops, and leaves the files as they are.
C5_ReadMissing ==
    [][\A h \in 1..Len(handlers) :
          (Starts(h, RRQ) /\ handlers[h].path \notin DOMAIN srvFiles) =>
              /\ SendsOnly(handlers[h].addr, MsgNotFound)
              /\ Len(log') = Len(log) + 1
              /\ log'[Len(log')].msg = "File not found"
              /\ handlers'[h].pc = "done"
              /\ handlers'[h].sent = 1
              /\ handlers'[h].chunks = 0
              /\ srvFiles' = srvFiles
              /\ backupFiles' = backupFiles]_vars

\* C5, the case: a Read handler that answered "File not found" and returned.
C5_Witness ==
    \E h \in 1..Len(handlers) :
        /\ handlers[h].op = RRQ
        /\ handlers[h].status = "not found"
        /\ handlers[h].pc = "done"
        /\ Len(log) > 0

\* C6: a Delete request for a name absent from the storage root is answered
\* with the failure status and leaves the stored files and their contents
\* unchanged.
C6_DeleteMissing ==
    [][\A h \in 1..Len(handlers) :
          (Starts(h, DEL) /\ handlers[h].path \notin DOMAIN srvFiles) =>
              /\ SendsOnly(handlers[h].addr, MsgDeleteFailed)
              /\ handlers'[h].status = "delete failed"
              /\ srvFiles' = srvFiles
              /\ backupFiles' = backupFiles]_vars

\* C6, the case: a Delete handler that answered with the failure status.
C6_Witness ==
    \E h \in 1..Len(handlers) :
        /\ handlers[h].op = DEL
        /\ handlers[h].status = "delete failed"
        /\ handlers[h].pc = "done"
        /\ handlers[h].path \notin DOMAIN srvFiles

\* C7: a Delete request for a file of the storage root removes exactly that
\* file, leaves every other stored file unchanged, and is answered with
\* exactly one status packet, which says success exactly when the file was
\* removed.
C7_DeletePresent ==
    [][\A h \in 1..Len(handlers) :
          Starts(h, DEL) =>
              /\ handlers[h].path \in DOMAIN srvFiles =>
                    /\ DOMAIN srvFiles' = DOMAIN srvFiles \ {handlers[h].path}
                    /\ \A p \in DOMAIN srvFiles' : srvFiles'[p] = srvFiles[p]
                    /\ backupFiles' = backupFiles
              /\ handlers'[h].sent = 1
              /\ handlers'[h].pc = "done"
              /\ \/ SendsOnly(handlers[h].addr, MsgDeleted)
                 \/ SendsOnly(handlers[h].addr, MsgDeleteFailed)
              /\ SendsOnly(handlers[h].addr, MsgDeleted)
                    <=> (/\ handlers[h].path \in DOMAIN srvFiles
                         /\ handlers[h].path \notin DOMAIN srvFiles')]_vars

\* C7, the case: a Delete handler that removed the file and said so.
C7_Witness ==
    \E h \in 1..Len(handlers) :
        /\ handlers[h].op = DEL
        /\ handlers[h].status = "deleted"
        /\ handlers[h].pc = "done"
        /\ handlers[h].path \notin DOMAIN srvFiles
        /\ PlainPath("b") \in DOMAIN srvFiles \/ PlainPath("a") \in DOMAIN srvFiles

\* C8: two clients that each Read a different stored file both end with a
\* local file that holds exactly the content of the file they asked for.
C8_BothReadersComplete ==
    \A c \in Clients :
        (plan \in ReaderPlans /\ \A r \in Clients : Settled(r)) =>
            /\ cli[c].pc = "menu"
            /\ Said(c, "downloaded")
            /\ plan[c][1].name \in DOMAIN cliFiles[c]
            /\ FileBytes(plan[c][1].name, cliFiles[c][plan[c][1].name])
                 = StoredContent(plan[c][1].name, fsize)

\* C9: with no datagram lost, every call of send_request_with_ack made by
\* send_wrq returns true, the server acknowledging each data packet.
C9_EveryChunkAcknowledged ==
    \A c \in Clients : ~Said(c, "wrq failed")

\* C10: when a Write handler has completed, the file it wrote is in the
\* backup directory.
C10_BackupOnCompletion ==
    \A h \in 1..Len(handlers) :
        (/\ handlers[h].op = WRQ
         /\ handlers[h].pc = "done"
         /\ handlers[h].status = "") =>
            \E p \in DOMAIN backupFiles : p[1] = handlers[h].name

\* C11: a packet whose operation code is not Read, Write or Delete is
\* answered with exactly one Error response, to its sender; the code is
\* logged; no stored file is created, modified or removed.
C11_UnknownOperation ==
    [][\A h \in 1..Len(handlers) :
          (/\ handlers[h].op \notin {RRQ, WRQ, DEL}
           /\ handlers[h].pc = "start"
           /\ handlers'[h] # handlers[h]) =>
              /\ SendsOnly(handlers[h].addr, MsgUnknownOp)
              /\ handlers'[h].sent = 1
              /\ handlers'[h].pc = "done"
              /\ log' = Append(log, LogEntry("Unknown operation ID", handlers[h].op,
                                             handlers[h].addr))
              /\ srvFiles' = srvFiles
              /\ backupFiles' = backupFiles]_vars

\* C11, the case: a handler that answered "Unknown operation" and returned.
C11_Witness ==
    \E h \in 1..Len(handlers) :
        /\ handlers[h].op \notin {RRQ, WRQ, DEL}
        /\ handlers[h].status = "unknown operation"
        /\ handlers[h].sent = 1
        /\ handlers[h].pc = "done"

\* C12: after a handler has failed its request (and logged it), every
\* datagram that is taken off the server socket is taken by the dispatch loop
\* and handed to a handler of its own.
C12_EveryRequestGetsAHandler ==
    [][(Len(log) > 0 /\ srvQ # <<>> /\ srvQ' = Tail(srvQ)) =>
          Len(handlers') = Len(handlers) + 1]_vars

\* C13: the client reports a Delete as successful only when the status the
\* server sent for it is the success status, and reports a failure when the
\* server sent the failure status.
C13_DeleteStatusReported ==
    \A c \in Clients :
        (cli[c].op = DEL /\ cli[c].pc = "menu" /\ Said(c, "delete sent")) =>
            \E h \in 1..Len(handlers) :
                /\ handlers[h].addr = c
                /\ handlers[h].op = DEL
                /\ handlers[h].status = "deleted"

\* C14: for every byte sequence b, the empty one included,
\* decrypt_data(encrypt_data(b)) = b; the encryption keeps the length and
\* changes every byte (0xAA has no zero effect on any byte).
C14_XorRoundTrip ==
    /\ codec.pc \in {"encrypted", "decrypted"} =>
          /\ Len(codec.enc) = Len(codec.data)
          /\ \A i \in 1..Len(codec.data) :
                /\ codec.enc[i] # codec.data[i]
                /\ codec.data[i] = 0 => codec.enc[i] = 170
                /\ codec.data[i] = 255 => codec.enc[i] = 85
    /\ codec.pc = "decrypted" => codec.dec = codec.data

\* C14, the case: a buffer of three bytes, not all alike, taken through
\* encrypt_data and decrypt_data.
C14_Witness ==
    /\ codec.pc = "decrypted"
    /\ Len(codec.data) >= 3
    /\ codec.data[1] # codec.data[2]
    /\ codec.dec = codec.data

\* C15: verify_checksum(b, calculate_checksum(b)) is true for every byte
\* sequence b, the checksum being the sum of the bytes; and it is false for
\* b with the value of any single byte changed.
C15_ChecksumDetectsOneByte ==
    /\ codec.pc \in {"summed", "verified"} =>
          /\ codec.sum >= 0
          /\ codec.sum <= 255 * Len(codec.data)
          /\ codec.data = <<1, 170, 255>> => codec.sum = 426
    /\ codec.pc = "verified" => (codec.ok <=> codec.other = codec.data)

\* C15, the case: a checksum verified against the bytes with the last byte
\* changed, and rejected.
C15_Witness ==
    /\ codec.pc = "verified"
    /\ Len(codec.data) >= 2
    /\ codec.other # codec.data
    /\ codec.other[Len(codec.data)] # codec.data[Len(codec.data)]
    /\ ~codec.ok

\* The datagrams queued on the sockets.
InFlight ==
    {srvQ[i].d : i \in 1..Len(srvQ)}
        \cup UNION {{cliQ[c][i].d : i \in 1..Len(cliQ[c])} : c \in Clients}

\* C16: in every data packet either side sends, the encrypted payload put in
\* the data field is at most 512 bytes long, dataSize is its length, and
\* checksum is the checksum of exactly those bytes.
C16_PayloadWithinCapacity ==
    \A d \in InFlight :
        (~d.raw /\ d.op \in {WRQ, ACK} /\ d.copied > 0) =>
            /\ d.copied <= PACKET_SIZE
            /\ d.dataSize = d.copied
            /\ d.checksum = calculate_checksum(SubSeq(d.data, 1, d.copied))

\* The number of Ack packets of client c that have reached the server socket.
AcksFrom(c) ==
    Cardinality({i \in 1..Len(srvQ) : srvQ[i].from = c /\ DecodeOp(srvQ[i].d) = ACK})
        + Cardinality({h \in 1..Len(handlers) :
                          handlers[h].addr = c /\ handlers[h].op = ACK})

\* C17: during a Read the server sends chunk k+1 only after the client's
\* acknowledgment of chunk k.
C17_OneChunkPerAck ==
    \A h \in 1..Len(handlers) :
        handlers[h].op = RRQ =>
            handlers[h].chunks <= 1 + AcksFrom(handlers[h].addr)

IsPrefix(s, t) == Len(s) <= Len(t) /\ s = SubSeq(t, 1, Len(s))

C20_UnmodifiedChunkPasses ==
    /\ \A c \in Clients : ~Said(c, "mismatch")
    /\ \A i \in 1..Len(log) : log[i].msg # "Checksum mismatch"

\* What a receive loop decrypts from the datagram d it read into its buffer
\* of PACKET_SIZE bytes.
ClientPlain(c, d) ==
    Decrypt(cli[c], SubSeq(WirePrefix(d), 1, RecvLen(d, PACKET_SIZE)))

ServerPlain(h, d) ==
    aes_decrypt(SubSeq(WirePrefix(d), 1, RecvLen(d, PACKET_SIZE)),
                handlers[h].key, handlers[h].iv)

\* C19: a receive loop writes a chunk, and the client acknowledges it, only
\* after the decrypted chunk passed the checksum check; a chunk that fails it
\* is neither written nor acknowledged.  First the client's download loop,
\* then the server's Write loop.
C19_WriteOnlyAfterCheck ==
    [][/\ \A c \in Clients :
            (/\ cli[c].pc = "rrq_loop"
             /\ cliQ[c] # <<>>
             /\ cliQ'[c] = Tail(cliQ[c])
             /\ RecvLen(Head(cliQ[c]).d, PACKET_SIZE) > 0) =>
                LET plain == ClientPlain(c, Head(cliQ[c]).d)
                    ack   == Dg(c, RequestPacket(ACK, ""))
                IN  IF calculate_checksum(plain) = cli[c].pkt.checksum
                    THEN /\ FileBytes(cli[c].name, cliFiles'[c][cli[c].name])
                              = FileBytes(cli[c].name, cliFiles[c][cli[c].name]) \o plain
                         /\ srvQ' = Append(srvQ, ack)
                    ELSE /\ cliFiles' = cliFiles
                         /\ srvQ' = srvQ
       /\ (/\ srvQ # <<>>
           /\ srvQ' = Tail(srvQ)
           /\ Len(handlers') = Len(handlers)
           /\ RecvLen(Head(srvQ).d, PACKET_SIZE) > 0) =>
                /\ cliQ' = cliQ
                /\ \/ srvFiles' = srvFiles
                   \/ \E h \in 1..Len(handlers) :
                         LET plain == ServerPlain(h, Head(srvQ).d)
                         IN  /\ handlers[h].pc = "recv"
                             /\ calculate_checksum(plain) = handlers[h].checksum
                             /\ srvFiles' = [srvFiles EXCEPT ![handlers[h].path] =
                                   Written(WriteAt(@.bytes, handlers[h].off, plain))]
                /\ (\A h \in 1..Len(handlers) :
                        handlers[h].pc = "recv" =>
                            calculate_checksum(ServerPlain(h, Head(srvQ).d))
                                # handlers[h].checksum)
                      => srvFiles' = srvFiles]_vars

\* C19, the case: the server's Write loop and then the client's download loop
\* have each dropped a chunk that failed the check, and neither has written.
C19_Witness ==
    /\ \E i \in 1..Len(log) : log[i].msg = "Checksum mismatch"
    /\ \E c \in Clients :
          /\ Said(c, "mismatch")
          /\ cli[c].pc = "rrq_loop"
          /\ FileLen(cliFiles[c][cli[c].name]) = 0
    /\ \A h \in 1..Len(handlers) : handlers[h].wrote = 0


\* C21: only the dispatch loop receives on the server socket: every datagram
\* that leaves the socket's queue leaves it into a new handler, none is read
\* by a handler that is already running.
C21_OnlyDispatchReceives ==
    [][(srvQ # <<>> /\ srvQ' = Tail(srvQ)) =>
          /\ Len(handlers') = Len(handlers) + 1
          /\ \A h \in 1..Len(handlers) : handlers'[h] = handlers[h]
          /\ log' = log]_vars

\* The Write requests client c has chosen so far, and the Write handlers the
\* dispatch loop has launched for packets of c.
WritesChosen(c) == {i \in 1..cli[c].step : plan[c][i].op = WRQ}

WriteHandlers(c) ==
    {h \in 1..Len(handlers) : handlers[h].op = WRQ /\ handlers[h].addr = c}

\* C22: an upload is served by exactly one Write handler, whatever the number
\* of packets the client sends for it, and that handler alone opens the
\* destination.
C22_OneHandlerPerUpload ==
    \A c \in Clients :
        Cardinality(WriteHandlers(c)) <= Cardinality(WritesChosen(c))

\* C23: a download of a stored file ends: when the server has sent every
\* chunk and the client has processed all that reached it, send_rrq has
\* returned.
C23_DownloadTerminates ==
    \A c \in Clients :
        (/\ cli[c].op = RRQ
         /\ PlainPath(cli[c].name) \in DOMAIN srvFiles
         /\ up
         /\ Settled(c)) =>
            cli[c].pc = "menu"

\* C24: a Write handler ends: when its client has stopped sending and every
\* datagram it sent has been taken off the server socket, the handler has
\* left its receive loop.
C24_WriteHandlerTerminates ==
    \A h \in 1..Len(handlers) :
        (/\ handlers[h].op = WRQ
         /\ up
         /\ Settled(handlers[h].addr)) =>
            handlers[h].pc = "done"


\* C25: when a datagram is readable while send_request_with_ack waits in one
\* of its at most 3 timeout windows, the call reads that one datagram and
\* returns true, whatever the datagram is, and sends no further copy of its
\* packet: the caller goes on as after an acknowledgment (send_rrq enters its
\* loop, send_del reports, send_wrq sends the next chunk or reports).
C25_AnyDatagramAcknowledges ==
    [][\A c \in Clients :
          (/\ cli[c].pc = "wait"
           /\ cliQ[c] # <<>>
           /\ (cli'[c] # cli[c] \/ cliQ'[c] = Tail(cliQ[c]))) =>
              /\ cli[c].attempt < 3
              /\ cliQ'[c] = Tail(cliQ[c])
              /\ cli'[c].acked = cli[c].acked + 1
              /\ ~(Said(c, "rrq failed") \/ Said(c, "wrq failed") \/ Said(c, "del failed"))'
              /\ CASE cli[c].op = RRQ ->
                        /\ cli'[c].pc = "rrq_loop"
                        /\ srvQ' = srvQ
                   [] cli[c].op = DEL ->
                        /\ cli'[c].pc = "menu"
                        /\ cli'[c].out = Append(cli[c].out, "delete sent")
                        /\ srvQ' = srvQ
                   [] OTHER ->
                        \/ /\ cli'[c].pc = "menu"
                           /\ cli'[c].out = Append(cli[c].out, "uploaded")
                           /\ srvQ' = srvQ
                        \/ /\ cli'[c].pc = "crashed"
                           /\ srvQ' = srvQ
                        \/ /\ cli'[c].pc = "wait"
                           /\ cli'[c].calls = cli[c].calls + 1
                           /\ cli'[c].sends = 1
                           /\ cli'[c].off > cli[c].off
                           /\ srvQ' = Append(srvQ, Dg(c, cli'[c].pkt))]_vars

\* C25, the case: the server's "File not found" text, the only datagram the
\* server sent, was taken as the acknowledgment of the Read request after a
\* single send, and send_rrq went on into its loop.
C25_Witness ==
    \E c \in Clients :
        /\ cli[c].op = RRQ
        /\ cli[c].pc = "rrq_loop"
        /\ cli[c].acked = 1
        /\ cli[c].sends = 1
        /\ variant = "xor"
        /\ \E h \in 1..Len(handlers) :
              /\ handlers[h].addr = c
              /\ handlers[h].status = "not found"
              /\ handlers[h].sent = 1


\* The chunk of the local file that the k-th packet of an upload carries.
ChunkOf(content, k) ==
    SubSeq(content, 512 * (k - 1) + 1,
           IF 512 * k < Len(content) THEN 512 * k ELSE Len(content))

\* C26: for a local file of S bytes send_wrq hands the chunks of the file to
\* send_request_with_ack one by one, in file order: the k-th packet is made
\* of the bytes 512(k-1)+1 .. min(512k, S) of the file, so of 512 bytes when
\* full and of S mod 512 bytes when last and partial; packet k+1 follows only
\* after the call for packet k returned true; after a call that returned
\* false no packet follows; an upload that never gets false ends after
\* exactly ceil(S/512) packets, and for S = 0 without any packet.
C26_ChunksOfferedInOrder ==
    \A c \in Clients :
        (cli[c].op = WRQ /\ cli[c].name \in DOMAIN cliFiles[c]) =>
            LET content == FileBytes(cli[c].name, cliFiles[c][cli[c].name])
                S       == Len(content)
                n       == (S + 511) \div 512
                k       == cli[c].calls
                pkt     == cli[c].pkt
            IN  /\ k <= n
                /\ cli[c].pc \in {"wait", "prompt"} =>
                      /\ k >= 1
                      /\ cli[c].acked = k - 1
                      /\ cli[c].off = 512 * (k - 1)
                      /\ pkt.op = WRQ
                      /\ pkt.name = cli[c].name
                      /\ Len(ChunkOf(content, k)) = (IF k < n \/ S % 512 = 0
                                                     THEN 512 ELSE S % 512)
                      /\ ~Overran(pkt) => pkt.dataSize = Len(ChunkOf(content, k))
                      /\ LET enc == Encrypt(cli[c], ChunkOf(content, k))
                         IN  /\ pkt.copied = Len(enc)
                             /\ SubSeq(pkt.data, 1, Min(Len(enc), 512))
                                  = SubSeq(enc, 1, Min(Len(enc), 512))
                             /\ pkt.checksum = calculate_checksum(enc)
                /\ cli[c].pc = "menu" =>
                      /\ Said(c, "uploaded")
                      /\ IF Said(c, "wrq failed")
                         THEN k >= 1 /\ cli[c].acked = k - 1
                         ELSE k = n /\ cli[c].acked = n
                      /\ S = 0 => (k = 0 /\ cli[c].sends = 0)

\* C26, the case: an upload of 1500 bytes whose three packets (512, 512 and
\* 476 bytes) were each taken as acknowledged, and that ended after them.
C26_Witness ==
    \E c \in Clients :
        /\ cli[c].op = WRQ
        /\ cli[c].pc = "menu"
        /\ fsize = 1500
        /\ cli[c].calls = 3
        /\ cli[c].acked = 3
        /\ cli[c].off = 1500
        /\ cli[c].pkt.dataSize = 476
        /\ ~Said(c, "wrq failed")


\* Handler h serves the datagram pkt of client c and has sent something back.
AnsweredBy(h, c, pkt) ==
    /\ handlers[h].addr = c
    /\ handlers[h].op = pkt.op
    /\ handlers[h].name = pkt.name
    /\ handlers[h].checksum = pkt.checksum
    /\ handlers[h].sent > 0

\* C27: the datagram send_request_with_ack takes as the acknowledgment of
\* its packet was sent by a handler the server launched for that packet;
\* a response to an earlier datagram of the client is never taken for it.
C27_AckAnswersItsPacket ==
    [][\A c \in Clients :
          (/\ cli[c].pc = "wait"
           /\ cliQ[c] # <<>>
           /\ cliQ'[c] = Tail(cliQ[c])) =>
              \E h \in 1..Len(handlers) : AnsweredBy(h, c, cli[c].pkt)]_vars

\* A data packet of a Read: a struct Packet the server filled with a chunk.
IsDataChunk(d) == ~d.raw /\ d.op = ACK /\ d.copied > 0

\* C28: send_request_with_ack, called for the Read request, never takes a
\* data chunk of the file off the socket: the first chunk is left for the
\* loop of send_rrq, which writes it.
C28_FirstChunkReachesTheLoop ==
    [][\A c \in Clients :
          (/\ cli[c].op = RRQ
           /\ cli[c].pc = "wait"
           /\ cliQ[c] # <<>>
           /\ cliQ'[c] = Tail(cliQ[c])) =>
              ~IsDataChunk(Head(cliQ[c]).d)]_vars

\* C29: a Write handler that has opened its destination has written the
\* payload of the packet that launched it: the file is not empty while the
\* handler waits for the chunks that follow, nor when it has ended.
C29_LaunchingPayloadWritten ==
    \A h \in 1..Len(handlers) :
        (/\ handlers[h].op = WRQ
         /\ handlers[h].pc \in {"recv", "done"}
         /\ handlers[h].status = "") =>
            /\ handlers[h].wrote > 0
            /\ FileLen(srvFiles[handlers[h].path]) > 0

\* C30: every datagram the loop of send_rrq reads is a data chunk of the
\* requested file; no status text of the server reaches the loop.
C30_LoopReadsOnlyChunks ==
    [][\A c \in Clients :
          (/\ cli[c].pc = "rrq_loop"
           /\ cliQ[c] # <<>>
           /\ cliQ'[c] = Tail(cliQ[c])) =>
              IsDataChunk(Head(cliQ[c]).d)]_vars


\* C32: send_wrq reports the upload as successful only when every chunk was
\* acknowledged: an upload that reported the failure of a chunk does not
\* report success as well.
C32_SuccessOnlyWhenAllAcknowledged ==
    \A c \in Clients :
        (cli[c].op = WRQ /\ Said(c, "wrq failed")) => ~Said(c, "uploaded")

\* C33: in the AES build both ends of a session use the same key and IV: the
\* handler that encrypts the chunks of a Read, or decrypts those of a Write,
\* holds the key and the IV of the client it serves.
C33_SameKeyBothEnds ==
    variant = "aes" =>
        \A h \in 1..Len(handlers) :
            (\/ handlers[h].op = RRQ /\ handlers[h].chunks > 0
             \/ /\ handlers[h].op = WRQ
                /\ handlers[h].pc \in {"recv", "done"}
                /\ handlers[h].status = "") =>
                /\ handlers[h].key = cli[handlers[h].addr].key
                /\ handlers[h].iv = cli[handlers[h].addr].iv


\* Handler h has removed the file its Delete request names.
Removed(h) ==
    /\ handlers[h].op = DEL
    /\ handlers[h].pc = "removed" \/ handlers[h].status = "deleted"

\* C31: when a Delete request for a stored file is sent again because the
\* reply was late, the file is removed at most once, and once it has been
\* removed the datagram the client takes as the reply of its request is
\* never the failure status.
C31_DuplicateDeleteKeepsSuccess ==
    [][\A c \in Clients :
          /\ Cardinality({h \in 1..Len(handlers) :
                             handlers[h].addr = c /\ Removed(h)}) <= 1
          /\ (/\ cli[c].op = DEL
              /\ cli[c].pc = "wait"
              /\ cliQ[c] # <<>>
              /\ cliQ'[c] = Tail(cliQ[c])
              /\ \E h \in 1..Len(handlers) : handlers[h].addr = c /\ Removed(h)) =>
                 Head(cliQ[c]).d # RawDatagram(MsgDeleteFailed)]_vars

====
